---- MODULE Spec2Model ----
(***************************************************************************)
(* Model of the eikon client library: the request layer                    *)
(* (json_requests.py, Profile.py) and the time-series reshaping            *)
(* (time_series.py).                                                       *)
(*                                                                         *)
(* Python strings on which the code does character work (find, slicing,    *)
(* replace, split, startswith, substring tests) are sequences of           *)
(* one-character strings.  Dictionary keys and enumerated tags are TLA+    *)
(* strings.  None is the string "None" where a field can also hold         *)
(* something else.                                                         *)
(***************************************************************************)
EXTENDS Integers, Sequences, FiniteSets, TLC

VARIABLES
    application_id,   \* Profile.application_id ("unset": the attribute does not exist yet)
    port,             \* Profile.port
    url,              \* Profile.url
    timeout,          \* Profile.timeout
    req,              \* the request-layer scenario: arguments and what the transport answers
    op,               \* the request-layer operation that ran last
    out,              \* its outcome (return value or raised error)
    posts,            \* number of calls of session.post made by the last send_json_request
    url_used,         \* the URL handed to session.post by the last send_json_request
    ts_in,            \* get_timeseries: arguments and the response of the service
    ts_pc,            \* get_timeseries: "ready" before the call, "done" after it
    ts_out,           \* get_timeseries: outcome of the call
    ts_sent,          \* get_timeseries: whether the call reached send_json_request
    warns,            \* get_timeseries: warnings emitted, in order
    ts_payload,       \* get_timeseries: the payload handed to send_json_request
    ts_caller         \* get_timeseries: the caller's rics and fields lists after the call

prof_vars == <<application_id, port, url, timeout>>
req_vars  == <<req, op, out, posts, url_used>>
ts_vars   == <<ts_in, ts_pc, ts_out, ts_sent, warns, ts_payload, ts_caller>>
vars      == <<application_id, port, url, timeout, req, op, out, posts, url_used,
               ts_in, ts_pc, ts_out, ts_sent, warns, ts_payload, ts_caller>>

None == "None"

(***************************************************************************)
(* Python string operations                                                *)
(***************************************************************************)

\* t occurs in s at (1-based) position i
OccursAt(s, t, i) ==
    /\ i >= 1
    /\ i + Len(t) - 1 <= Len(s)
    /\ SubSeq(s, i, i + Len(t) - 1) = t

\* `t in s` for two strings
Contains(s, t) == \E i \in 1..(Len(s) + 1) : OccursAt(s, t, i)

\* s.find(t): 0-based index of the first occurrence, -1 when there is none
Find(s, t) ==
    IF Contains(s, t)
    THEN (CHOOSE i \in 1..(Len(s) + 1) :
             /\ OccursAt(s, t, i)
             /\ \A j \in 1..(i - 1) : ~OccursAt(s, t, j)) - 1
    ELSE -1

\* s[k:], k possibly negative
SliceFrom(s, k) ==
    LET n     == Len(s)
        start == IF k < 0 THEN (IF n + k < 0 THEN 0 ELSE n + k)
                          ELSE (IF k > n THEN n ELSE k)
    IN  SubSeq(s, start + 1, n)

\* s.replace(old, new) for a non-empty old: every non-overlapping occurrence, left to right
RECURSIVE Replace(_, _, _)
Replace(s, old, new) ==
    IF Len(s) = 0 THEN <<>>
    ELSE IF OccursAt(s, old, 1)
         THEN new \o Replace(SubSeq(s, Len(old) + 1, Len(s)), old, new)
         ELSE <<Head(s)>> \o Replace(Tail(s), old, new)

\* s.startswith(c), s.endswith(c) for a one-character c
StartsWith(s, c) == Len(s) > 0 /\ s[1] = c
EndsWith(s, c)   == Len(s) > 0 /\ s[Len(s)] = c

\* number of occurrences of the character c in s
RECURSIVE CountChar(_, _)
CountChar(s, c) ==
    IF Len(s) = 0 THEN 0
    ELSE (IF Head(s) = c THEN 1 ELSE 0) + CountChar(Tail(s), c)

\* s.split(c)[0]
RECURSIVE FirstPart(_, _)
FirstPart(s, c) ==
    IF Len(s) = 0 \/ Head(s) = c THEN <<>>
    ELSE <<Head(s)>> \o FirstPart(Tail(s), c)

(***************************************************************************)
(* Literals                                                                *)
(***************************************************************************)

S_ErrorCode     == <<"E","r","r","o","r","C","o","d","e">>
S_ErrorMessage  == <<"E","r","r","o","r","M","e","s","s","a","g","e">>
S_error         == <<"e","r","r","o","r">>
S_transactionId == <<"t","r","a","n","s","a","c","t","i","o","n","I","d">>

\* the message of the error raised when the proxy cannot be reached (kept as one chunk)
ProxyMessage ==
    <<"Eikon Proxy not installed or not running. Please read the documentation to know how to install and run the proxy.">>

\* the letters str.upper and str.islower work on
LowerLetters == <<"a","b","c","d","e","f","g","h","i","j","k","l","m",
                  "n","o","p","q","r","s","t","u","v","w","x","y","z">>
UpperLetters == <<"A","B","C","D","E","F","G","H","I","J","K","L","M",
                  "N","O","P","Q","R","S","T","U","V","W","X","Y","Z">>
IsLowerChar(c) == \E i \in 1..Len(LowerLetters) : LowerLetters[i] = c
IsUpperChar(c) == \E i \in 1..Len(UpperLetters) : UpperLetters[i] = c
UpperChar(c) ==
    IF IsLowerChar(c)
    THEN UpperLetters[CHOOSE i \in 1..Len(LowerLetters) : LowerLetters[i] = c]
    ELSE c

\* s.upper()
StrUpper(s) == [i \in 1..Len(s) |-> UpperChar(s[i])]

\* s.islower(): at least one cased character and no upper-case one
IsLower(s) ==
    /\ \E i \in 1..Len(s) : IsLowerChar(s[i])
    /\ \A i \in 1..Len(s) : ~IsUpperChar(s[i])

\* s.strip(): without the blanks at both ends
RECURSIVE LStrip(_)
LStrip(s) == IF Len(s) > 0 /\ Head(s) = " " THEN LStrip(Tail(s)) ELSE s
RECURSIVE RStrip(_)
RStrip(s) == IF Len(s) > 0 /\ s[Len(s)] = " " THEN RStrip(SubSeq(s, 1, Len(s) - 1)) ELSE s
Strip(s) == RStrip(LStrip(s))

\* s.split(): the words between runs of blanks
RECURSIVE Split(_)
Split(s) ==
    LET t == LStrip(s)
        w == FirstPart(t, " ")
    IN  IF Len(t) = 0 THEN <<>>
        ELSE <<w>> \o Split(SubSeq(t, Len(w) + 1, Len(t)))

(***************************************************************************)
(* Outcomes of a call                                                      *)
(***************************************************************************)

NoValue == <<>>

Return(v)           == [kind |-> "return", type |-> "value", code |-> None, message |-> <<>>, value |-> v]
Raise(t, c, m)      == [kind |-> "raise", type |-> t, code |-> c, message |-> m, value |-> NoValue]
NotCalled           == [kind |-> "none", type |-> None, code |-> None, message |-> <<>>, value |-> NoValue]

\* EikonError(code, message)
EikonError(c, m) == Raise("EikonError", c, m)
\* requests.HTTPError(message, response=...)
HTTPError(m)     == Raise("HTTPError", None, m)

(***************************************************************************)
(* Response bodies                                                         *)
(*                                                                         *)
(* A body is what response.json() produced: a JSON object ("dict"), a JSON *)
(* string ("text"), a JSON array ("list") or JSON null ("null").           *)
(***************************************************************************)

Body(k, ks, em, er, tx, it, d) ==
    [kind |-> k, keys |-> ks, ErrorMessage |-> em, error |-> er, text |-> tx,
     items |-> it, data |-> d]

DictBody(ks, em, er) == Body("dict", ks, em, er, <<>>, {}, <<>>)
TextBody(tx)         == Body("text", {}, <<>>, <<>>, tx, {}, <<>>)
ListBody(it)         == Body("list", {}, <<>>, <<>>, <<>>, it, <<>>)
NullBody             == Body("null", {}, <<>>, <<>>, <<>>, {}, <<>>)
\* {'timeseriesData': d}
TimeseriesBody(d)    == Body("dict", {"timeseriesData"}, <<>>, <<>>, <<>>, {}, d)

\* str(server_response); of an object, an array and null only the delimiters matter here
StrOf(b) ==
    CASE b.kind = "text" -> b.text
      [] b.kind = "dict" -> <<"{", "}">>
      [] b.kind = "list" -> <<"[", "]">>
      [] OTHER           -> <<"N","o","n","e">>

\* `name in server_response` is defined for dict (key), str (substring) and list (element)
SupportsIn(b) == b.kind # "null"

KeyIn(b, name, chars) ==
    CASE b.kind = "dict" -> name \in b.keys
      [] b.kind = "text" -> Contains(b.text, chars)
      [] b.kind = "list" -> name \in b.items
      [] OTHER           -> FALSE

\* len(error_message.split(',')) > 4
HasQuintet(m) == CountChar(m, ",") + 1 > 4

\* status.split(':')[1] exists
StatusParses(m) == CountChar(FirstPart(m, ","), ":") >= 1

\* the branch "check UDF error" of check_server_error, for a body with both fields
UdfError(b) ==
    IF b.kind # "dict"
    THEN Raise("TypeError", None, <<>>)            \* server_response['ErrorMessage'] on str or list
    ELSE IF HasQuintet(b.ErrorMessage) /\ ~StatusParses(b.ErrorMessage)
         THEN Raise("IndexError", None, <<>>)      \* status.split(':')[1]
         ELSE HTTPError(b.ErrorMessage)

\* the branch "check DataGrid error" of check_server_error
GridError(b) ==
    IF b.kind # "dict"
    THEN Raise("TypeError", None, <<>>)            \* server_response['error'] on str or list
    ELSE HTTPError(b.error)

IsBracketed(s) == StartsWith(s, "<") /\ EndsWith(s, ">")

\* variant of check_server_error: the UDF and grid checks come before the HTTP error check
check_server_error_reordered(b) ==
    IF ~SupportsIn(b) THEN Raise("TypeError", None, <<>>)
    ELSE IF KeyIn(b, "ErrorCode", S_ErrorCode) /\ KeyIn(b, "ErrorMessage", S_ErrorMessage)
         THEN UdfError(b)
    ELSE IF KeyIn(b, "error", S_error) /\ KeyIn(b, "transactionId", S_transactionId)
         THEN GridError(b)
    ELSE IF IsBracketed(StrOf(b)) THEN HTTPError(StrOf(b))
    ELSE Return(NoValue)

\* check_server_error(server_response): Return(NoValue) when it returns, else what it raises
check_server_error(b) ==
    IF IsBracketed(StrOf(b)) THEN HTTPError(StrOf(b))
    ELSE IF ~SupportsIn(b) THEN Raise("TypeError", None, <<>>)
    ELSE IF KeyIn(b, "ErrorCode", S_ErrorCode) /\ KeyIn(b, "ErrorMessage", S_ErrorMessage)
         THEN UdfError(b)
    ELSE IF KeyIn(b, "error", S_error) /\ KeyIn(b, "transactionId", S_transactionId)
         THEN GridError(b)
    ELSE Return(NoValue)

(***************************************************************************)
(* Profile (Profile.py)                                                    *)
(***************************************************************************)

\* "http://localhost:{0}/api/v1/data".format(port)
UrlOf(p) == <<"http://localhost:", p, "/api/v1/data">>
\* the URL None (a URL is a sequence of strings, so None is the empty one)
NoUrl == <<>>

\* what identify_scripting_proxy_port can return: the saved port, a default port, or None
DiscoveredPorts == {"9000", "36036", "1234"}
AppIds   == {"app"}
Timeouts == {30, 60}

\* Profile.__init__(application_id=None)
ProfileInit ==
    /\ application_id = "unset"
    /\ port = None
    /\ url = NoUrl
    /\ timeout = 30

\* variant of SetPortNumberTo: the port None leaves the URL as it was
SetPortNumberTo_keepUrl(p) ==
    /\ port' = p
    /\ url' = IF p # None THEN UrlOf(p) ELSE url

\* Profile.set_port_number(port_number), also the tail of set_application_id
SetPortNumberTo(p) ==
    /\ port' = p
    /\ url' = IF p # None THEN UrlOf(p) ELSE NoUrl

(***************************************************************************)
(* send_json_request (json_requests.py)                                    *)
(***************************************************************************)

Response(st, tx, dec, b) == [kind |-> "response", status |-> st, text |-> tx, decodes |-> dec, body |-> b]
ConnectionError == [kind |-> "connection_error", status |-> None, text |-> <<>>, decodes |-> FALSE, body |-> NullBody]
ReadTimeout     == [kind |-> "timeout", status |-> None, text |-> <<>>, decodes |-> FALSE, body |-> NullBody]

\* str(response) of a requests.Response
StrOfResponse(st) == <<"<Response [", st, "]>">>

\* the part of send_json_request after session.post answered
AfterPost(h) ==
    CASE h.kind = "connection_error" -> EikonError("401", ProxyMessage)
      [] h.kind = "timeout"          -> Raise("Timeout", None, <<>>)
      [] OTHER ->
           IF h.status = "200"
           THEN IF ~h.decodes
                THEN Raise("JSONDecodeError", None, <<>>)       \* response.json()
                ELSE LET chk == check_server_error(h.body)
                     IN  IF chk.kind = "raise" THEN chk ELSE Return(h.body)
           ELSE IF h.status = "401"
                THEN EikonError("401", h.text)
                ELSE HTTPError(StrOfResponse(h.status))

\* session.post(url, ...): requests rejects the URL None before anything is sent
Post(u, h) ==
    IF u = NoUrl THEN Raise("MissingSchema", None, <<>>) ELSE AfterPost(h)

\* send_json_request(entity, payload): outcome, number of session.post calls, URL passed
send_json_request(app, u, r) ==
    IF ~r.entity_ok
    THEN [out |-> Raise("ValueError", None, <<"entity must be a string identifying an UDF endpoint">>),
          posts |-> 0, url_used |-> NoUrl]
    ELSE IF r.payload = "bad_text"
    THEN [out |-> Raise("ValueError", None, <<"payload must be json well formed.">>),
          posts |-> 0, url_used |-> NoUrl]
    ELSE IF r.payload = "other"
    THEN [out |-> Raise("ValueError", None, <<"payload must be a string or a dictionary">>),
          posts |-> 0, url_used |-> NoUrl]
    ELSE IF app = "unset"
    THEN [out |-> Raise("AttributeError", None, <<>>),          \* profile.get_application_id()
          posts |-> 0, url_used |-> NoUrl]
    ELSE [out |-> Post(u, r.http), posts |-> 1, url_used |-> u]

(***************************************************************************)
(* Inputs of the request layer                                             *)
(***************************************************************************)

ErrorKeys == {"ErrorCode", "ErrorMessage", "error", "transactionId"}

\* values of the ErrorMessage field: "not found", "s:500,r,v,c,h", "s,r,v,c,h", "s:500,r,v,c"
ErrorMessages ==
    { <<"n","o","t"," ","f","o","u","n","d">>,
      <<"s",":","5","0","0",",","r",",","v",",","c",",","h">>,
      <<"s",",","r",",","v",",","c",",","h">>,
      <<"s",":","5","0","0",",","r",",","v",",","c">> }

\* value of the error field of a grid error
GridMessage == <<"g","r","i","d">>

\* string bodies: "<500 Server Error>", "<ErrorCode ErrorMessage>", "ErrorCode ErrorMessage",
\* "error transactionId", "ErrorCode", "ok", "<", "<a", ""
Texts ==
    { <<"<","5","0","0"," ","S","e","r","v","e","r"," ","E","r","r","o","r",">">>,
      <<"<","E","r","r","o","r","C","o","d","e"," ","E","r","r","o","r","M","e","s","s","a","g","e",">">>,
      <<"E","r","r","o","r","C","o","d","e"," ","E","r","r","o","r","M","e","s","s","a","g","e">>,
      <<"e","r","r","o","r"," ","t","r","a","n","s","a","c","t","i","o","n","I","d">>,
      <<"E","r","r","o","r","C","o","d","e">>,
      <<"o","k">>,
      <<"<">>,
      <<"<","a">>,
      <<>> }

DictBodies ==
    { DictBody(ks, em, IF "error" \in ks THEN GridMessage ELSE <<>>) :
        <<ks, em>> \in { p \in (SUBSET ErrorKeys) \X (ErrorMessages \cup {<<>>}) :
                           (p[2] = <<>>) <=> ("ErrorMessage" \notin p[1]) } }

Bodies ==
    DictBodies
    \cup { TextBody(t) : t \in Texts }
    \cup { ListBody(it) : it \in { {}, {"ErrorCode", "ErrorMessage"}, {"a"} } }
    \cup { NullBody }

\* response.text of a 401 answer: "denied", or the very text of the proxy-unreachable error
ResponseTexts == { <<"d","e","n","i","e","d">>, ProxyMessage }

HttpAnswers ==
    { Response("200", <<>>, TRUE, b) : b \in Bodies }
    \cup { Response("200", <<>>, FALSE, NullBody) }
    \cup { Response("401", t, FALSE, NullBody) : t \in ResponseTexts }
    \cup { Response(st, <<>>, FALSE, NullBody) : st \in {"404", "500"} }
    \cup { ConnectionError, ReadTimeout }

Request(e, p, h) == [entity_ok |-> e, payload |-> p, http |-> h]

\* a well-formed call with every transport answer, and the malformed calls
Requests ==
    { Request(TRUE, p, h) : p \in {"dict", "json_text"}, h \in HttpAnswers }
    \cup { Request(FALSE, "dict", ConnectionError),
           Request(TRUE, "bad_text", ConnectionError),
           Request(TRUE, "other", ConnectionError) }

(***************************************************************************)
(* get_timeseries (time_series.py): error partition                        *)
(***************************************************************************)

Description == <<"D","e","s","c","r","i","p","t","i","o","n">>
S_ErrorWith == <<"E","r","r","o","r"," ","w","i","t","h"," ">>
S_Separator == <<" ","|"," ">>

\* variant of IsStatusError: the literal compared with is written in upper case
IsStatusError_upper(rec) == rec.statusCode = "ERROR"

\* get_json_value(ts_data, 'statusCode') == 'Error'
IsStatusError(rec) == rec.statusCode = "Error"

\* ts_status_errors: the records counted as failed, in response order
StatusErrors(data) == SelectSeq(data, IsStatusError)

\* variant of ErrorMessageOf: only the first occurrence is replaced (replace(..., 1))
ErrorMessageOf_once(rec) ==
    LET sfx == SliceFrom(rec.errorMessage, Find(rec.errorMessage, Description))
    IN  IF OccursAt(sfx, Description, 1)
        THEN rec.ric \o SubSeq(sfx, Len(Description) + 1, Len(sfx))
        ELSE sfx

\* the message reported for one failing record:
\*   ts_error_message[ts_error_message.find("Description"):].replace('Description', ric)
ErrorMessageOf(rec) ==
    Replace(SliceFrom(rec.errorMessage, Find(rec.errorMessage, Description)),
            Description, rec.ric)

\* ts_error_messages after the loop over ts_status_errors
RECURSIVE CombinedMessage(_)
CombinedMessage(errs) ==
    IF Len(errs) = 0 THEN <<>>
    ELSE ErrorMessageOf(Head(errs)) \o S_Separator \o CombinedMessage(Tail(errs))

\* 'Error with {0}'.format(ts_error_message)
WarningOf(rec) == S_ErrorWith \o ErrorMessageOf(rec)

\* the warnings of the loop, in order
Warnings(errs) == [i \in 1..Len(errs) |-> WarningOf(errs[i])]

(***************************************************************************)
(* The formatters (time_series.py)                                         *)
(***************************************************************************)

\* error_code.lower() on the status codes of the model
Lower(st) ==
    CASE st \in {"Error", "ERROR", "error"} -> "error"
      [] st = "OK"                          -> "ok"
      [] OTHER                              -> st

\* the formatters' test to skip a record: error_code.lower() == 'error'
IsSkipped(rec) == Lower(rec.statusCode) = "error"
IsKept(rec)    == ~IsSkipped(rec)

\* the records a formatter works on, in response order
KeptSeries(data) == SelectSeq(data, IsKept)

\* fields.index('TIMESTAMP'), 1-based; 0 stands for the ValueError of a missing name
\* variant of TimestampIndex: an absent name falls back to the first position
TimestampIndex_default(fields) ==
    IF \E i \in 1..Len(fields) : fields[i] = "TIMESTAMP"
    THEN CHOOSE i \in 1..Len(fields) :
             /\ fields[i] = "TIMESTAMP"
             /\ \A j \in 1..(i - 1) : fields[j] # "TIMESTAMP"
    ELSE 1

TimestampIndex(fields) ==
    IF \E i \in 1..Len(fields) : fields[i] = "TIMESTAMP"
    THEN CHOOSE i \in 1..Len(fields) :
             /\ fields[i] = "TIMESTAMP"
             /\ \A j \in 1..(i - 1) : fields[j] # "TIMESTAMP"
    ELSE 0

\* s with position i removed: fields.pop(i), numpy.delete(row, i)
RemoveAt(s, i) == SubSeq(s, 1, i - 1) \o SubSeq(s, i + 1, Len(s))

\* the error a formatter raises on a kept record, or "none"
\*   fields.index('TIMESTAMP') raises ValueError when the name is absent;
\*   numpy.array([]) is one-dimensional, so datapoints[:, timestamp_index] raises IndexError
SeriesError(rec) ==
    IF TimestampIndex(rec.fields) = 0 THEN "ValueError"
    ELSE IF Len(rec.dataPoints) = 0 THEN "IndexError"
    ELSE "none"

\* the error of the first kept record that has one (the loop stops there), or "none"
RECURSIVE FirstSeriesError(_)
FirstSeriesError(kept) ==
    IF Len(kept) = 0 THEN "none"
    ELSE IF SeriesError(Head(kept)) # "none" THEN SeriesError(Head(kept))
    ELSE FirstSeriesError(Tail(kept))

\* variant of FrameOf: the timestamp is taken to be the first value of every data row
FrameOf_firstColumn(rec) ==
    LET ti == TimestampIndex(rec.fields)
    IN  [ric     |-> rec.ric,
         columns |-> RemoveAt(rec.fields, ti),
         index   |-> [i \in 1..Len(rec.dataPoints) |-> rec.dataPoints[i][ti]],
         rows    |-> [i \in 1..Len(rec.dataPoints) |-> RemoveAt(rec.dataPoints[i], 1)]]

\* the per-series frame built by _get_frame_list for one kept record
FrameOf(rec) ==
    LET ti == TimestampIndex(rec.fields)
    IN  [ric     |-> rec.ric,
         columns |-> RemoveAt(rec.fields, ti),
         index   |-> [i \in 1..Len(rec.dataPoints) |-> rec.dataPoints[i][ti]],
         rows    |-> [i \in 1..Len(rec.dataPoints) |-> RemoveAt(rec.dataPoints[i], ti)]]

\* the concatenation of a sequence of sequences
RECURSIVE Flatten(_)
Flatten(ss) == IF Len(ss) = 0 THEN <<>> ELSE Head(ss) \o Flatten(Tail(ss))

\* the missing-value marker of a cell (data_frame.fillna(pd.np.nan)); data values are positive
NaN == -1

SetOf(s) == { s[i] : i \in 1..Len(s) }

\* the elements of a set of numbers in ascending order
RECURSIVE SortedSeq(_)
SortedSeq(S) ==
    IF S = {} THEN <<>>
    ELSE LET m == CHOOSE x \in S : \A y \in S : x <= y
         IN  <<m>> \o SortedSeq(S \ {m})

\* Index.union as pd.concat(axis=1) uses it on two row indexes: an equal (or empty) other
\* index leaves the index as it is, otherwise the result is the sorted union
IndexUnion(a, b) ==
    IF b = a \/ Len(b) = 0 THEN a
    ELSE IF Len(a) = 0 THEN b
    ELSE SortedSeq(SetOf(a) \cup SetOf(b))

\* the row index of pd.concat(data_frames, axis=1): the union of the indexes, left to right
RECURSIVE ConcatIndex(_)
ConcatIndex(frames) ==
    IF Len(frames) = 0 THEN <<>>
    ELSE IF Len(frames) = 1 THEN frames[1].index
    ELSE IndexUnion(ConcatIndex(SubSeq(frames, 1, Len(frames) - 1)), frames[Len(frames)].index)

\* the cells of one frame in the row of timestamp t: its row with that timestamp, else
\* missing-value markers
FrameCellsAt(fr, t) ==
    IF \E i \in 1..Len(fr.index) : fr.index[i] = t
    THEN fr.rows[CHOOSE i \in 1..Len(fr.index) : fr.index[i] = t]
    ELSE [c \in 1..Len(fr.columns) |-> NaN]

\* variant of ConcatCells: the frames side by side, aligned on the row position
ConcatCells_positional(frames) ==
    IF Len(frames) = 1 THEN frames[1].rows
    ELSE LET idx == ConcatIndex(frames)
         IN  [r \in 1..Len(idx) |->
                 Flatten([k \in 1..Len(frames) |->
                     IF r <= Len(frames[k].rows) THEN frames[k].rows[r]
                     ELSE [c \in 1..Len(frames[k].columns) |-> NaN]])]

\* the rows of pd.concat(data_frames, axis=1): the frames side by side, aligned on the index
ConcatCells(frames) ==
    IF Len(frames) = 1 THEN frames[1].rows
    ELSE LET idx == ConcatIndex(frames)
         IN  [r \in 1..Len(idx) |->
                 Flatten([k \in 1..Len(frames) |-> FrameCellsAt(frames[k], idx[r])])]

\* a result: of a wide table the column labels, the row index and the cells (with the
\* frames it was concatenated from), of the normalized table its rows
Table(sh, nm, cols, frs, rws) ==
    [shape |-> sh, name |-> nm, columns |-> cols, frames |-> frs, rows |-> rws,
     index |-> IF sh \in {"list", "normalized"} THEN <<>> ELSE ConcatIndex(frs),
     cells |-> IF sh \in {"list", "normalized"} THEN <<>> ELSE ConcatCells(frs)]

\* _get_frame_1_ric_N_fields
FrameOneRic(frames, ricName) ==
    Table("1_ric_N_fields", ricName, frames[1].columns, frames, <<>>)

\* df.rename(columns={fieldName: ric_name})
RenameColumns(cols, fieldName, ricName) ==
    [i \in 1..Len(cols) |-> IF cols[i] = fieldName THEN ricName ELSE cols[i]]

\* variant of FrameNRicsOneField: every column is renamed to the first instrument id
FrameNRicsOneField_firstRic(frames, rics, fieldName) ==
    LET renamed == [i \in 1..Len(frames) |->
                       [frames[i] EXCEPT !.columns = RenameColumns(@, fieldName, rics[1])]]
    IN  Table("N_rics_1_field", fieldName,
              Flatten([i \in 1..Len(renamed) |-> renamed[i].columns]), renamed, <<>>)

\* _get_frame_N_rics_1_field
FrameNRicsOneField(frames, rics, fieldName) ==
    LET renamed == [i \in 1..Len(frames) |->
                       [frames[i] EXCEPT !.columns = RenameColumns(@, fieldName, rics[i])]]
    IN  Table("N_rics_1_field", fieldName,
              Flatten([i \in 1..Len(renamed) |-> renamed[i].columns]), renamed, <<>>)

\* _get_frame_N_rics_N_fields
FrameNRicsNFields(frames, rics, fields) ==
    LET relabelled == [i \in 1..Len(frames) |->
                          [frames[i] EXCEPT !.columns =
                              [j \in 1..Len(fields) |-> <<rics[i], fields[j]>>]]]
    IN  Table("N_rics_N_fields", <<"Security", "Field">>,
              Flatten([i \in 1..Len(relabelled) |-> relabelled[i].columns]), relabelled, <<>>)

\* variant of NiceDataFrame: the one-instrument shape is taken only with several fields
NiceDataFrame_strict(kept) ==
    LET data_frames  == [i \in 1..Len(kept) |-> FrameOf(kept[i])]
        rics         == [i \in 1..Len(kept) |-> kept[i].ric]
        fields       == IF Len(kept) = 0 THEN <<>> ELSE data_frames[Len(kept)].columns
        rics_count   == Len(rics)
        fields_count == Len(fields)
    IN  IF rics_count = 0 \/ fields_count = 0
        THEN Table("list", None, <<>>, data_frames, <<>>)
        ELSE IF rics_count = 1 /\ fields_count > 1 THEN FrameOneRic(data_frames, rics[1])
        ELSE IF fields_count = 1
             THEN FrameNRicsOneField(data_frames, rics, fields[1])
        ELSE FrameNRicsNFields(data_frames, rics, fields)

\* NiceDataFrame_Formatter.get_data_frame on kept records free of errors
NiceDataFrame(kept) ==
    LET data_frames  == [i \in 1..Len(kept) |-> FrameOf(kept[i])]
        rics         == [i \in 1..Len(kept) |-> kept[i].ric]
        fields       == IF Len(kept) = 0 THEN <<>> ELSE data_frames[Len(kept)].columns
        rics_count   == Len(rics)
        fields_count == Len(fields)
    IN  IF rics_count = 0 \/ fields_count = 0
        THEN Table("list", None, <<>>, data_frames, <<>>)      \* the list data_frames itself
        ELSE IF rics_count = 1 THEN FrameOneRic(data_frames, rics[1])
        ELSE IF rics_count > 1 /\ fields_count = 1
             THEN FrameNRicsOneField(data_frames, rics, fields[1])
        ELSE FrameNRicsNFields(data_frames, rics, fields)

\* variant of NormalizedRows: one row per data row, of its first field
NormalizedRows_firstField(rec) ==
    LET fr == FrameOf(rec)
        fc == Len(fr.columns)
    IN  [k \in 1..(IF fc = 0 THEN 0 ELSE Len(fr.rows)) |->
            [Date |-> fr.index[k], Security |-> rec.ric,
             Field |-> fr.columns[1], Value |-> fr.rows[k][1]]]

\* variant of NormalizedRows: field by field, within a field by data row
NormalizedRows_fieldMajor(rec) ==
    LET fr == FrameOf(rec)
        fc == Len(fr.columns)
        rc == Len(fr.rows)
    IN  [k \in 1..(rc * fc) |->
            LET c == ((k - 1) \div rc) + 1
                r == ((k - 1) % rc) + 1
            IN  [Date |-> fr.index[r], Security |-> rec.ric,
                 Field |-> fr.columns[c], Value |-> fr.rows[r][c]]]

\* the rows NormalizedDataFrame_Formatter builds for one kept record
NormalizedRows(rec) ==
    LET fr == FrameOf(rec)
        fc == Len(fr.columns)
    IN  [k \in 1..(Len(fr.rows) * fc) |->
            LET r == ((k - 1) \div fc) + 1
                c == ((k - 1) % fc) + 1
            IN  [Date |-> fr.index[r], Security |-> rec.ric,
                 Field |-> fr.columns[c], Value |-> fr.rows[r][c]]]

\* NormalizedDataFrame_Formatter.get_data_frame on kept records free of errors (at least one)
NormalizedDataFrame(kept) ==
    Table("normalized", None, <<"Date", "Security", "Field", "Value">>, <<>>,
          Flatten([i \in 1..Len(kept) |-> NormalizedRows(kept[i])]))

\* len(data_frame): of the list the number of frames, of a frame the number of its rows
LenOfResult(t) ==
    IF t.shape = "list" THEN Len(t.frames)
    ELSE IF t.shape = "normalized" THEN Len(t.rows)
    ELSE Len(t.index)

(***************************************************************************)
(* get_timeseries (time_series.py): the call                               *)
(***************************************************************************)

\* variant of FormatResult: normalize is looked at before raw_output
FormatResult_normalizeFirst(body, normalize, raw_output) ==
    LET kept == KeptSeries(body.data)
        err  == FirstSeriesError(kept)
    IN  IF normalize
        THEN IF err # "none" THEN Raise(err, None, <<>>)
             ELSE IF Len(kept) = 0
             THEN Raise("ValueError", None, <<"No objects to concatenate">>)
             ELSE Return(NormalizedDataFrame(kept))
        ELSE IF raw_output THEN Return(body)
        ELSE IF err # "none" THEN Raise(err, None, <<>>)
        ELSE LET t == NiceDataFrame(kept)
             IN  IF t.shape = "list" /\ LenOfResult(t) > 0
                 THEN Raise("AttributeError", None, <<>>)
                 ELSE Return(t)

\* the lines after the error check: raw output, else one of the two formatters, else fillna
FormatResult(body, normalize, raw_output) ==
    LET kept == KeptSeries(body.data)
        err  == FirstSeriesError(kept)
    IN  IF raw_output THEN Return(body)
        ELSE IF err # "none" THEN Raise(err, None, <<>>)
        ELSE IF normalize
             THEN IF Len(kept) = 0
                  THEN Raise("ValueError", None, <<"No objects to concatenate">>)   \* pd.concat([])
                  ELSE Return(NormalizedDataFrame(kept))
             ELSE LET t == NiceDataFrame(kept)
                  IN  IF t.shape = "list" /\ LenOfResult(t) > 0
                      THEN Raise("AttributeError", None, <<>>)     \* list has no fillna
                      ELSE Return(t)

\* check_for_string_or_list_of_strings(parameter, name) passes: a non-empty string, or a
\* list (also the empty one) of strings
IsStringOrListOfStrings(a) == a \in {"str", "list_of_str", "empty_list"}

\* the parameter checks of get_timeseries in the order of the code: the name of the first
\* parameter that raises ValueError, or "none"
FirstBadParameter(args) ==
    IF ~IsStringOrListOfStrings(args.rics) THEN "rics"
    ELSE IF args.fields \notin {"None", "*"} /\ ~IsStringOrListOfStrings(args.fields) THEN "fields"
    ELSE IF args.interval # "str" THEN "interval"
    ELSE IF args.dates = "bad_start" THEN "start_date"
    ELSE IF args.dates = "bad_end" THEN "end_date"
    ELSE IF args.dates = "start_after_end" THEN "start_date > end_date"
    ELSE IF args.count \notin {"None", "int"} THEN "count"
    ELSE IF args.calendar \notin {"None", "str"} THEN "calendar"
    ELSE IF args.corax \notin {"None", "str"} THEN "corax"
    ELSE "none"

S_Star      == <<"*">>
S_TIMESTAMP == <<"T","I","M","E","S","T","A","M","P">>

\* variant of PayloadRics: every identifier is upper-cased
PayloadRics_upperAll(kind, value) ==
    LET rics == IF kind = "str" THEN <<Strip(value[1])>> ELSE value
    IN  [i \in 1..Len(rics) |-> StrUpper(rics[i])]

\* the rics of the payload: a string becomes the list of its stripped value, then every
\* identifier that is lower-case is upper-cased
PayloadRics(kind, value) ==
    LET rics == IF kind = "str" THEN <<Strip(value[1])>> ELSE value
    IN  [i \in 1..Len(rics) |-> IF IsLower(rics[i]) THEN StrUpper(rics[i]) ELSE rics[i]]

\* the fields of the payload: ['*'] for None and '*', else the upper-cased names (of a
\* string its words), reduced to ['*'] when '*' is among them, with TIMESTAMP appended
\* when it is not
PayloadFields(kind, value) ==
    LET fields == IF kind \in {"None", "*"} THEN <<S_Star>>
                  ELSE IF kind = "str" THEN Split(StrUpper(Strip(value[1])))
                  ELSE [i \in 1..Len(value) |-> StrUpper(value[i])]
    IN  IF \E i \in 1..Len(fields) : fields[i] = S_Star THEN <<S_Star>>
        ELSE IF \A i \in 1..Len(fields) : fields[i] # S_TIMESTAMP
             THEN Append(fields, S_TIMESTAMP)
        ELSE fields

\* the payload of the request: rics and fields, and the optional keys that were given
Payload(in) ==
    [rics   |-> PayloadRics(in.args.rics, in.rics),
     fields |-> PayloadFields(in.args.fields, in.fields),
     keys   |-> { k \in {"count", "calendar", "corax"} : in.args[k] # "None" }]
NoPayload == [rics |-> <<>>, fields |-> <<>>, keys |-> {}]

\* the caller's lists after the call: rics and fields are rebound to new lists (lines 106,
\* 108, 113-119), fields.append works on the new list
CallerLists(in) == [rics |-> in.rics, fields |-> in.fields]

\* variant of ProcessResponse: the all-failed test is made of non-empty responses only
ProcessResponse_nonEmpty(sent, normalize, raw_output) ==
    IF sent.kind = "raise" THEN [out |-> sent, warns |-> <<>>]
    ELSE LET body == sent.value
         IN  IF body.kind # "dict" \/ "timeseriesData" \notin body.keys
             THEN [out |-> Raise("KeyError", None, <<>>), warns |-> <<>>]
             ELSE LET errs == StatusErrors(body.data)
                  IN  IF Len(body.data) > 0 /\ Len(errs) = Len(body.data)
                      THEN [out   |-> EikonError("Error", CombinedMessage(errs)),
                            warns |-> Warnings(errs)]
                      ELSE [out   |-> FormatResult(body, normalize, raw_output),
                            warns |-> Warnings(errs)]

\* get_timeseries from the answer of send_json_request on: outcome and warnings
ProcessResponse(sent, normalize, raw_output) ==
    IF sent.kind = "raise" THEN [out |-> sent, warns |-> <<>>]
    ELSE LET body == sent.value
         IN  IF body.kind # "dict" \/ "timeseriesData" \notin body.keys
             THEN [out |-> Raise("KeyError", None, <<>>), warns |-> <<>>]   \* ts_result['timeseriesData']
             ELSE LET errs == StatusErrors(body.data)
                  IN  IF Len(errs) = Len(body.data)
                      THEN [out   |-> EikonError("Error", CombinedMessage(errs)),
                            warns |-> Warnings(errs)]
                      ELSE [out   |-> FormatResult(body, normalize, raw_output),
                            warns |-> Warnings(errs)]

\* variant of get_timeseries: count, calendar and corax are checked after the request
get_timeseries_lateChecks(app, u, in) ==
    IF FirstBadParameter(in.args) \notin {"none", "count", "calendar", "corax"}
    THEN [out |-> Raise("ValueError", None, <<FirstBadParameter(in.args)>>),
          warns |-> <<>>, sent |-> FALSE, payload |-> NoPayload, caller |-> CallerLists(in)]
    ELSE LET sent == send_json_request(app, u, Request(TRUE, "dict", in.http))
             r    == ProcessResponse(sent.out, in.normalize, in.raw_output)
         IN  [out |-> IF FirstBadParameter(in.args) # "none"
                      THEN Raise("ValueError", None, <<FirstBadParameter(in.args)>>)
                      ELSE r.out,
              warns |-> r.warns, sent |-> TRUE, payload |-> Payload(in),
              caller |-> CallerLists(in)]

\* get_timeseries(rics, fields, ..., normalize, raw_output): outcome, warnings, whether
\* send_json_request was called and with which payload, and the caller's lists
get_timeseries(app, u, in) ==
    IF FirstBadParameter(in.args) # "none"
    THEN [out |-> Raise("ValueError", None, <<FirstBadParameter(in.args)>>),
          warns |-> <<>>, sent |-> FALSE, payload |-> NoPayload, caller |-> CallerLists(in)]
    ELSE LET sent == send_json_request(app, u, Request(TRUE, "dict", in.http))
             r    == ProcessResponse(sent.out, in.normalize, in.raw_output)
         IN  [out |-> r.out, warns |-> r.warns, sent |-> TRUE, payload |-> Payload(in),
              caller |-> CallerLists(in)]

(***************************************************************************)
(* Inputs of get_timeseries                                                *)
(***************************************************************************)

MaxRecs == 2

\* instrument ids, by position in the response
RicNames == <<<<"A">>, <<"B">>, <<"C">>, <<"D">>>>

\* field lists of a response (the service sends the same list for every instrument)
FieldLists ==
    { <<"TIMESTAMP", "CLOSE">>, <<"CLOSE", "TIMESTAMP">>,
      <<"TIMESTAMP", "OPEN", "CLOSE">>, <<"OPEN", "TIMESTAMP", "CLOSE">>,
      <<"OPEN", "CLOSE", "TIMESTAMP">>,
      <<"TIMESTAMP">>, <<"CLOSE">> }

\* timestamps of the data rows of one instrument, in the order returned
TimestampLists == { <<>>, <<1>>, <<1, 2>>, <<2, 1>>, <<2, 3>> }

\* errorMessage values: "no data", "", "x Description: no data",
\* "Description: a Description", "description x"
ErrorTexts ==
    { <<"n","o"," ","d","a","t","a">>,
      <<>>,
      <<"x"," ","D","e","s","c","r","i","p","t","i","o","n",":"," ","n","o"," ","d","a","t","a">>,
      <<"D","e","s","c","r","i","p","t","i","o","n",":"," ","a"," ","D","e","s","c","r","i","p","t","i","o","n">>,
      <<"d","e","s","c","r","i","p","t","i","o","n"," ","x">> }

FieldNumber(f) == CASE f = "OPEN" -> 1 [] f = "CLOSE" -> 2 [] OTHER -> 0

\* the value the service returns for instrument number n, field f, at time t
ValueAt(n, f, t) == 100 * n + 10 * FieldNumber(f) + t

\* one row of dataPoints, aligned with the field list
DataRow(n, fields, t) ==
    [i \in 1..Len(fields) |-> IF fields[i] = "TIMESTAMP" THEN t ELSE ValueAt(n, fields[i], t)]

\* the record of instrument number n
OkRecord(n, st, fields, tss) ==
    [ric |-> RicNames[n], statusCode |-> st, fields |-> fields,
     dataPoints |-> [i \in 1..Len(tss) |-> DataRow(n, fields, tss[i])],
     errorMessage |-> <<>>]

ErrorRecord(n, st, fields, msg) ==
    [ric |-> RicNames[n], statusCode |-> st, fields |-> fields, dataPoints |-> <<>>,
     errorMessage |-> msg]

RecordsOf(n, fields) ==
    { OkRecord(n, "OK", fields, tss) : tss \in TimestampLists }
    \cup { ErrorRecord(n, "Error", fields, m) : m \in ErrorTexts }
    \cup { ErrorRecord(n, st, fields, <<"n","o"," ","d","a","t","a">>) : st \in {"ERROR", "error"} }

\* the timeseriesData lists of k records over one field list
RECURSIVE DataLists(_, _)
DataLists(k, fields) ==
    IF k = 0 THEN { <<>> }
    ELSE { Append(d, r) : d \in DataLists(k - 1, fields), r \in RecordsOf(k, fields) }

TimeseriesData ==
    UNION { DataLists(k, fl) : k \in 0..MaxRecs, fl \in FieldLists }

\* the arguments of a call by the kind of value passed: rics, fields, interval,
\* start_date and end_date, count, calendar, corax
Args(rc, fl, iv, dt, ct, cl, cx) ==
    [rics |-> rc, fields |-> fl, interval |-> iv, dates |-> dt, count |-> ct,
     calendar |-> cl, corax |-> cx]

\* get_timeseries(['A', ...]) with the defaults of the other parameters
DefaultArgs == Args("list_of_str", "*", "str", "ok", "None", "None", "None")

\* calls that differ from the default call in one parameter
OtherArgs ==
    { [DefaultArgs EXCEPT !.rics = v] : v \in {"str", "empty_list", "empty_str", "None", "list_with_int"} }
    \cup { [DefaultArgs EXCEPT !.fields = v] : v \in {"None", "str", "list_of_str", "int", "list_with_int"} }
    \cup { [DefaultArgs EXCEPT !.interval = v] : v \in {"None", "int"} }
    \cup { [DefaultArgs EXCEPT !.dates = v] : v \in {"bad_start", "bad_end", "start_after_end"} }
    \cup { [DefaultArgs EXCEPT !.count = v] : v \in {"int", "str", "float"} }
    \cup { [DefaultArgs EXCEPT !.calendar = v] : v \in {"str", "int"} }
    \cup { [DefaultArgs EXCEPT !.corax = v] : v \in {"str", "int"} }

\* a call: the kinds of the arguments, the values of rics and fields (a string is the one
\* entry of its list), the two flags, and what the transport answers
TsCall(a, rv, fv, n, r, h) ==
    [args |-> a, rics |-> rv, fields |-> fv, normalize |-> n, raw_output |-> r, http |-> h]

\* get_timeseries(['A'], ...); the value of fields is read when fields is not '*' or None
DefaultRics   == << <<"A">> >>
DefaultFields == << <<"C","L","O","S","E">> >>
TsInput(a, n, r, h) == TsCall(a, DefaultRics, DefaultFields, n, r, h)

\* instrument identifiers: lower-case, mixed, upper-case, with a dot or a digit, no letter
Idents ==
    { <<"a">>, <<"a","b">>, <<"A","b">>, <<"A","B">>, <<"a",".","b">>, <<"1">>, <<"a","1">> }

\* the rics argument by kind: lists of one or two identifiers, the empty list, strings
RicsArguments ==
    { <<"list_of_str", <<x>>>> : x \in Idents }
    \cup { <<"list_of_str", <<x, y>>>> : x \in Idents, y \in Idents }
    \cup { <<"empty_list", <<>>>> }
    \cup { <<"str", <<x>>>> : x \in { <<" ","a","b"," ">>, <<"a","B">>, <<"A",".","b">> } }

\* the fields argument by kind: lists of names, and strings of names
FieldsArguments ==
    { <<"list_of_str", fv>> :
        fv \in { << <<"c","l","o","s","e">> >>,
                 << <<"t","i","m","e","s","t","a","m","p">>, <<"O","P","E","N">> >>,
                 << <<"o","p","e","n">>, <<"*">> >> } }
    \cup { <<"empty_list", <<>>>> }
    \cup { <<"str", <<x>>>> :
             x \in { <<" ","o","p","e","n"," "," ","c","l","o","s","e">>, <<"C","L","O","S","E">> } }


\* the answer to the call of scenario C: three instruments, the second one failing
ScenarioC ==
    Response("200", <<>>, TRUE, TimeseriesBody(
        << OkRecord(1, "OK", <<"TIMESTAMP", "CLOSE">>, <<1, 2>>),
           ErrorRecord(2, "Error", <<"TIMESTAMP", "CLOSE">>,
                       <<"x"," ","D","e","s","c","r","i","p","t","i","o","n",":"," ","n","o"," ","d","a","t","a">>),
           OkRecord(3, "OK", <<"TIMESTAMP", "CLOSE">>, <<1, 2>>) >>))

\* a response with every combination of the flags, the calls with other arguments, and
\* the failures of the request layer
TsInputs ==
    { TsInput(DefaultArgs, n, r, Response("200", <<>>, TRUE, TimeseriesBody(d))) :
        n \in BOOLEAN, r \in BOOLEAN, d \in TimeseriesData }
    \cup { TsInput(a, FALSE, FALSE, ScenarioC) : a \in OtherArgs }
    \cup { TsCall([DefaultArgs EXCEPT !.rics = ra[1]], ra[2], DefaultFields,
                  FALSE, FALSE, ScenarioC) : ra \in RicsArguments }
    \cup { TsCall([a EXCEPT !.rics = "list_of_str", !.fields = fa[1]],
                  << <<"a","b">>, <<"A","b">> >>, fa[2], FALSE, FALSE, ScenarioC) :
             a \in OtherArgs \cup {DefaultArgs}, fa \in FieldsArguments }
    \cup { TsInput(DefaultArgs, n, FALSE, ScenarioC) : n \in BOOLEAN }
    \cup { TsInput(DefaultArgs, FALSE, FALSE, h) :
             h \in { ConnectionError,
                     Response("401", <<"d","e","n","i","e","d">>, FALSE, NullBody),
                     Response("200", <<>>, TRUE,
                              DictBody({"ErrorCode", "ErrorMessage"},
                                       <<"n","o","t"," ","f","o","u","n","d">>, <<>>)) } }

(***************************************************************************)
(* Actions                                                                 *)
(***************************************************************************)

\* Profile.set_application_id(app_id), app_id a string; the port is what discovery returns
SetApplicationId ==
    \E a \in AppIds, p \in DiscoveredPorts \cup {None} :
        /\ application_id' = a
        /\ SetPortNumberTo(p)
        /\ op' = "set_application_id"
        /\ out' = Return(NoValue)
        /\ UNCHANGED <<timeout, req, posts, url_used, ts_vars>>

\* Profile.set_application_id(None) returns at once; a non-string raises before any assignment
SetApplicationIdRejected ==
    \E a \in {"None", "non-string"} :
        /\ op' = "set_application_id"
        /\ out' = IF a = "None" THEN Return(NoValue)
                  ELSE Raise("AttributeError", None, <<"application_id must be a string">>)
        /\ UNCHANGED <<prof_vars, req, posts, url_used, ts_vars>>

\* Profile.set_port_number(port_number)
SetPortNumber ==
    \E p \in DiscoveredPorts \cup {None} :
        /\ SetPortNumberTo(p)
        /\ op' = "set_port_number"
        /\ out' = Return(NoValue)
        /\ UNCHANGED <<application_id, timeout, req, posts, url_used, ts_vars>>

\* Profile.set_timeout(timeout)
SetTimeout ==
    \E t \in Timeouts :
        /\ timeout' = t
        /\ op' = "set_timeout"
        /\ out' = Return(NoValue)
        /\ UNCHANGED <<application_id, port, url, req, posts, url_used, ts_vars>>

\* send_json_request(entity, payload) with the transport answering req.http
SendJsonRequest ==
    LET r == send_json_request(application_id, url, req)
    IN  /\ op' = "send_json_request"
        /\ out' = r.out
        /\ posts' = r.posts
        /\ url_used' = r.url_used
        /\ UNCHANGED <<prof_vars, req, ts_vars>>

\* check_server_error(server_response) on the body of req.http
CheckServerError ==
    /\ req.http.kind = "response"
    /\ req.http.decodes
    /\ op' = "check_server_error"
    /\ out' = check_server_error(req.http.body)
    /\ posts' = 0
    /\ url_used' = NoUrl
    /\ UNCHANGED <<prof_vars, req, ts_vars>>

\* get_timeseries(rics, ..., normalize, raw_output)
GetTimeseries ==
    /\ ts_pc = "ready"
    /\ LET r == get_timeseries(application_id, url, ts_in)
       IN  /\ ts_out' = r.out
           /\ warns' = r.warns
           /\ ts_sent' = r.sent
           /\ ts_payload' = r.payload
           /\ ts_caller' = r.caller
    /\ ts_pc' = "done"
    /\ UNCHANGED <<prof_vars, req_vars, ts_in>>

(***************************************************************************)
(* Specifications                                                          *)
(***************************************************************************)

ReqIdle ==
    /\ op = "none"
    /\ out = NotCalled
    /\ posts = 0
    /\ url_used = NoUrl

TsIdle ==
    /\ ts_pc = "ready"
    /\ ts_out = NotCalled
    /\ ts_sent = FALSE
    /\ warns = <<>>
    /\ ts_payload = NoPayload
    /\ ts_caller = CallerLists(ts_in)

\* the time-series calls: the profile was configured by set_app_id and found the proxy
Init ==
    /\ application_id = "app"
    /\ port = "9000"
    /\ url = UrlOf("9000")
    /\ timeout = 30
    /\ req = Request(TRUE, "dict", ConnectionError)
    /\ ReqIdle
    /\ ts_in \in TsInputs
    /\ TsIdle

Next == GetTimeseries

Spec == Init /\ [][Next]_vars

\* the request layer: a fresh profile, any call, any answer of the transport
InitReq ==
    /\ ProfileInit
    /\ req \in Requests
    /\ ReqIdle
    /\ ts_in = TsInput(DefaultArgs, FALSE, FALSE, ConnectionError)
    /\ TsIdle

NextReq ==
    \/ SetApplicationId
    \/ SetApplicationIdRejected
    \/ SetPortNumber
    \/ SetTimeout
    \/ SendJsonRequest
    \/ CheckServerError

SpecReq == InitReq /\ [][NextReq]_vars

(***************************************************************************)
(* Properties of get_timeseries, checked under Spec                        *)
(***************************************************************************)

\* the call was made and the service answered with a time-series response
TsAnswered ==
    /\ ts_pc = "done"
    /\ ts_sent
    /\ ts_in.http.kind = "response"
    /\ ts_in.http.status = "200"
    /\ ts_in.http.body.kind = "dict"
    /\ "timeseriesData" \in ts_in.http.body.keys

TsData == ts_in.http.body.data

\* positions of the records with the error status code, and of the others
FailedAt == { i \in 1..Len(TsData) : TsData[i].statusCode = "Error" }
OkAt     == (1..Len(TsData)) \ FailedAt

\* the failing records in response order
FailedRecords == SelectSeq(TsData, LAMBDA rec : rec.statusCode = "Error")

\* the instrument ids of the series a returned table is made of
TableRics(t) == { t.frames[i].ric : i \in 1..Len(t.frames) }
             \cup { t.rows[i].Security : i \in 1..Len(t.rows) }

\* C1: when the response has at least one record and every record has the error status
\* code, get_timeseries raises EikonError carrying the combined message and returns no
\* value, whatever normalize and raw_output are.
C1_AllFailedRaises ==
    (TsAnswered /\ Len(TsData) >= 1 /\ FailedAt = 1..Len(TsData))
    => /\ ts_out.kind = "raise"
       /\ ts_out.type = "EikonError"
       /\ ts_out.code = "Error"
       /\ ts_out.message =
            Flatten([i \in 1..Len(TsData) |-> ErrorMessageOf(TsData[i]) \o S_Separator])

C1_Witness ==
    /\ TsAnswered
    /\ Len(TsData) = 2
    /\ FailedAt = {1, 2}
    /\ ts_in.raw_output
    /\ ts_in.normalize
    /\ ts_out.type = "EikonError"

\* a response as the service documents it: status codes OK and Error only, the TIMESTAMP
\* field in every field list
Conforming ==
    /\ \A i \in 1..Len(TsData) : TsData[i].statusCode \in {"OK", "Error"}
    /\ \A i \in 1..Len(TsData) : \E j \in 1..Len(TsData[i].fields) :
                                      TsData[i].fields[j] = "TIMESTAMP"

\* C2: when at least one but not all records have the error status code, get_timeseries
\* does not raise, emits exactly one warning per failing record, and returns a table made
\* of exactly the non-failing records (read on conforming responses, table output asked).
C2_PartialFailureReturnsTable ==
    (TsAnswered /\ Conforming /\ FailedAt # {} /\ OkAt # {})
    => /\ ts_out.kind = "return"
       /\ Len(warns) = Cardinality(FailedAt)
       /\ ~ts_in.raw_output =>
              TableRics(ts_out.value) = { TsData[i].ric : i \in OkAt }

\* number of fields other than TIMESTAMP of a response whose field lists all hold it
FieldCount == Len(TsData[1].fields) - 1

\* C3: with normalize false the wide shape depends on R (ok series) and F (fields other
\* than TIMESTAMP) only: R = 1 gives one-instrument/many-fields for every F >= 1 (one
\* column named after the field when F = 1), R > 1 and F = 1 gives
\* many-instruments/one-field, R > 1 and F > 1 gives many-instruments/many-fields.
C3_ShapeByCounts ==
    (/\ TsAnswered /\ Conforming
     /\ ~ts_in.normalize /\ ~ts_in.raw_output
     /\ ts_out.kind = "return"
     /\ Cardinality(OkAt) >= 1 /\ FieldCount >= 1)
    => LET R == Cardinality(OkAt)
           F == FieldCount
           t == ts_out.value
       IN  /\ (R = 1) => t.shape = "1_ric_N_fields"
           /\ (R = 1 /\ F = 1) =>
                 t.columns = SelectSeq(TsData[1].fields, LAMBDA f : f # "TIMESTAMP")
           /\ (R > 1 /\ F = 1) => t.shape = "N_rics_1_field"
           /\ (R > 1 /\ F > 1) => t.shape = "N_rics_N_fields"

C3_Witness ==
    /\ TsAnswered
    /\ ~ts_in.normalize /\ ~ts_in.raw_output
    /\ Len(TsData) = 1
    /\ TsData[1].statusCode = "OK"
    /\ TsData[1].fields = <<"CLOSE", "TIMESTAMP">>
    /\ ts_out.kind = "return"
    /\ ts_out.value.shape = "1_ric_N_fields"
    /\ ts_out.value.columns = <<"CLOSE">>

\* C9: for a failing record whose errorMessage does not contain 'Description', the
\* message reported for it (in its warning and in the combined diagnostic) is the
\* errorMessage verbatim, and the call does not fail because the token is absent.
C9_AbsentTokenVerbatim ==
    TsAnswered =>
        /\ Len(warns) = Len(FailedRecords)
        /\ \A k \in 1..Len(FailedRecords) :
              ~Contains(FailedRecords[k].errorMessage, Description)
              => warns[k] = S_ErrorWith \o FailedRecords[k].errorMessage
        /\ (Len(FailedRecords) = 1 /\ Len(TsData) = 1
            /\ ~Contains(FailedRecords[1].errorMessage, Description))
           => ts_out.message = FailedRecords[1].errorMessage \o S_Separator

\* positions at which 'Description' occurs in s
TokenAt(s) == { i \in 1..Len(s) : OccursAt(s, Description, i) }

\* s is m from its first 'Description' on, with every 'Description' replaced by ric:
\* stated position by position, without the replacement algorithm
IsScopedMessage(s, m, ric) ==
    LET first == CHOOSE i \in TokenAt(m) : \A j \in TokenAt(m) : i <= j
        sfx   == SubSeq(m, first, Len(m))
        occ   == TokenAt(sfx)
        shift == Len(Description) - Len(ric)
        \* number of occurrences that start before position j of sfx
        before(j) == Cardinality({ i \in occ : i < j })
        covered(j) == \E i \in occ : i <= j /\ j < i + Len(Description)
    IN  /\ Len(s) = Len(sfx) - shift * Cardinality(occ)
        /\ \A j \in 1..Len(sfx) :
              ~covered(j) => s[j - shift * before(j)] = sfx[j]
        /\ \A i \in occ :
              SubSeq(s, i - shift * before(i), i - shift * before(i) + Len(ric) - 1) = ric

\* C10: for a failing record whose errorMessage contains 'Description', the reported
\* message is the suffix that begins at the first 'Description', with 'Description'
\* replaced by the record's instrument id; what precedes the token is dropped.
C10_TokenScoped ==
    TsAnswered =>
        \A k \in 1..Len(FailedRecords) :
            Contains(FailedRecords[k].errorMessage, Description)
            => /\ k <= Len(warns)
               /\ SubSeq(warns[k], 1, Len(S_ErrorWith)) = S_ErrorWith
               /\ IsScopedMessage(SubSeq(warns[k], Len(S_ErrorWith) + 1, Len(warns[k])),
                                  FailedRecords[k].errorMessage, FailedRecords[k].ric)

\* "x Description: no data" of instrument A is reported as "A: no data"
C10_Witness ==
    /\ TsAnswered
    /\ Len(warns) >= 1
    /\ FailedRecords[1].errorMessage =
         <<"x"," ","D","e","s","c","r","i","p","t","i","o","n",":"," ","n","o"," ","d","a","t","a">>
    /\ warns[1] = S_ErrorWith \o <<"A",":"," ","n","o"," ","d","a","t","a">>

\* the entries of a sequence of strings with sep between consecutive entries
RECURSIVE JoinWith(_, _)
JoinWith(ss, sep) ==
    IF Len(ss) = 0 THEN <<>>
    ELSE IF Len(ss) = 1 THEN ss[1]
    ELSE ss[1] \o sep \o JoinWith(Tail(ss), sep)

\* C11: the combined diagnostic string carried by the all-instruments-failed error is the
\* per-instrument messages of all failing records, in the order of the records in the
\* response, with ' | ' between consecutive entries as a separator.
C11_SeparatorBetweenEntries ==
    (TsAnswered /\ Len(TsData) >= 1 /\ FailedAt = 1..Len(TsData))
    => /\ ts_out.kind = "raise"
       /\ ts_out.message =
            JoinWith([i \in 1..Len(TsData) |-> ErrorMessageOf(TsData[i])], S_Separator)

\* the positions of the ok records, and the ok records with a field list without TIMESTAMP
OkStatusAt == { i \in 1..Len(TsData) : TsData[i].statusCode = "OK" }
HasTimestamp(fields) == \E j \in 1..Len(fields) : fields[j] = "TIMESTAMP"

\* C12: when an ok record has a field list with no field named exactly TIMESTAMP, both
\* formatters (wide and normalized) fail with an error: no table is returned.
C12_NoTimestampFails ==
    (/\ TsAnswered /\ ~ts_in.raw_output
     /\ \E i \in OkStatusAt : ~HasTimestamp(TsData[i].fields))
    => /\ ts_out.kind = "raise"
       /\ ts_out.type = "ValueError"

\* an ok record with the fields [CLOSE] and one data row, wide table asked
C12_Witness ==
    /\ TsAnswered /\ ~ts_in.raw_output /\ ~ts_in.normalize
    /\ Len(TsData) = 1
    /\ TsData[1].statusCode = "OK"
    /\ TsData[1].fields = <<"CLOSE">>
    /\ Len(TsData[1].dataPoints) = 1
    /\ ts_out.kind = "raise"

\* C13: with normalize false, when the ok series number zero (R = 0) or have no field
\* besides the timestamp (F = 0), get_timeseries returns, without raising, an empty table
\* with no rows and no columns (read on responses whose ok records have data rows).
C13_EmptyTableForNoSeriesOrNoField ==
    (/\ TsAnswered /\ ~ts_in.normalize /\ ~ts_in.raw_output
     /\ Len(TsData) >= 1 /\ FailedAt # 1..Len(TsData)
     /\ \A i \in 1..Len(TsData) : HasTimestamp(TsData[i].fields)
     /\ \A i \in OkStatusAt : Len(TsData[i].dataPoints) >= 1
     /\ (OkStatusAt = {} \/ FieldCount = 0))
    => /\ ts_out.kind = "return"
       /\ LenOfResult(ts_out.value) = 0
       /\ Len(ts_out.value.columns) = 0

\* the ok records in response order, the fields of a record other than TIMESTAMP, its
\* timestamps in returned order, and its value for a field in a data row
OkRecords == SelectSeq(TsData, LAMBDA rec : rec.statusCode = "OK")
NonTimestamp(fields) == SelectSeq(fields, LAMBDA f : f # "TIMESTAMP")
PositionOf(fields, f) == CHOOSE j \in 1..Len(fields) : fields[j] = f
TimestampsOf(rec) ==
    [i \in 1..Len(rec.dataPoints) |-> rec.dataPoints[i][PositionOf(rec.fields, "TIMESTAMP")]]
DataValue(rec, i, f) == rec.dataPoints[i][PositionOf(rec.fields, f)]

\* the number of normalized rows of a record, and of the first n ok records
RowsOfRecord(rec) == Len(rec.dataPoints) * Len(NonTimestamp(rec.fields))
RECURSIVE RowsBefore(_)
RowsBefore(n) == IF n = 0 THEN 0 ELSE RowsBefore(n - 1) + RowsOfRecord(OkRecords[n])

\* get_timeseries returned the normalized table of a response of ok records only
NormalizedOfOkRecords ==
    /\ TsAnswered /\ ts_in.normalize /\ ~ts_in.raw_output
    /\ Len(TsData) >= 1
    /\ \A i \in 1..Len(TsData) : TsData[i].statusCode = "OK"
    /\ ts_out.kind = "return"

C15_NormalizedRowOrder ==
    (/\ TsAnswered /\ ts_in.normalize /\ ~ts_in.raw_output
     /\ ts_out.kind = "return")
    => /\ Len(ts_out.value.rows) = RowsBefore(Len(OkRecords))
       /\ \A s \in 1..Len(OkRecords) :
             LET rec == OkRecords[s]
                 F   == Len(NonTimestamp(rec.fields))
             IN  \A k \in 0..(RowsOfRecord(rec) - 1) :
                     LET row == ts_out.value.rows[RowsBefore(s - 1) + k + 1]
                         i   == (k \div F) + 1
                         f   == NonTimestamp(rec.fields)[(k % F) + 1]
                     IN  /\ row.Date = TimestampsOf(rec)[i]
                         /\ row.Security = rec.ric
                         /\ row.Field = f
                         /\ row.Value = DataValue(rec, i, f)

\* two series, TIMESTAMP in the middle of the field list, rows returned as 2, 1: the
\* third row of the table is the first field of the second data row of the first series
C15_Witness ==
    /\ NormalizedOfOkRecords
    /\ Len(TsData) = 2
    /\ TsData[1].fields = <<"OPEN", "TIMESTAMP", "CLOSE">>
    /\ TimestampsOf(TsData[1]) = <<2, 1>>
    /\ Len(ts_out.value.rows) >= 6
    /\ ts_out.value.rows[3] = [Date |-> 1, Security |-> <<"A">>, Field |-> "OPEN",
                               Value |-> ValueAt(1, "OPEN", 1)]
    /\ ts_out.value.rows[5].Security = <<"B">>

\* get_timeseries returned a wide table made of at least one series
WideReturned ==
    /\ TsAnswered /\ ~ts_in.normalize /\ ~ts_in.raw_output
    /\ ts_out.kind = "return"
    /\ ts_out.value.shape \in {"1_ric_N_fields", "N_rics_1_field", "N_rics_N_fields"}

\* the number of columns of the first n ok records, and the data row of a record at time t
RECURSIVE ColumnsBefore(_)
ColumnsBefore(n) ==
    IF n = 0 THEN 0 ELSE ColumnsBefore(n - 1) + Len(NonTimestamp(OkRecords[n].fields))
HasRowAt(rec, t) == \E i \in 1..Len(rec.dataPoints) : TimestampsOf(rec)[i] = t
RowAt(rec, t) == CHOOSE i \in 1..Len(rec.dataPoints) : TimestampsOf(rec)[i] = t

\* the label the column of field f of the ok record rec has in a wide table of shape sh
LabelOf(sh, rec, f) ==
    IF sh = "1_ric_N_fields" THEN f
    ELSE IF sh = "N_rics_1_field" THEN rec.ric
    ELSE <<rec.ric, f>>

\* C16: for every ok record and every position of TIMESTAMP in its field list, the wide
\* table has no column for TIMESTAMP (its columns are the other fields of the ok records,
\* the timestamps are the row index only), and every column holds, in each row of one of
\* the record's timestamps, the value aligned with the column's field in the source row.
C16_WideColumnsAligned ==
    WideReturned
    => LET t == ts_out.value
       IN  /\ Len(t.columns) = ColumnsBefore(Len(OkRecords))
           /\ \A r \in 1..Len(t.index) : Len(t.cells[r]) = Len(t.columns)
           /\ \A s \in 1..Len(OkRecords) :
                 LET rec == OkRecords[s]
                     fs  == NonTimestamp(rec.fields)
                 IN  /\ SetOf(TimestampsOf(rec)) \subseteq SetOf(t.index)
                     /\ \A j \in 1..Len(fs) :
                           LET c == ColumnsBefore(s - 1) + j
                           IN  /\ fs[j] # "TIMESTAMP"
                               /\ t.columns[c] = LabelOf(t.shape, rec, fs[j])
                               /\ \A r \in 1..Len(t.index) :
                                     HasRowAt(rec, t.index[r]) =>
                                        t.cells[r][c] =
                                            DataValue(rec, RowAt(rec, t.index[r]), fs[j])

\* one instrument, TIMESTAMP last of three fields, two data rows: two columns OPEN, CLOSE
C16_Witness ==
    /\ WideReturned
    /\ Len(TsData) = 1
    /\ TsData[1].fields = <<"OPEN", "CLOSE", "TIMESTAMP">>
    /\ TimestampsOf(TsData[1]) = <<1, 2>>
    /\ ts_out.value.columns = <<"OPEN", "CLOSE">>
    /\ ts_out.value.index = <<1, 2>>
    /\ ts_out.value.cells[2] = <<ValueAt(1, "OPEN", 2), ValueAt(1, "CLOSE", 2)>>

\* C17: in the many-instruments/one-field shape the row index is the union of the
\* timestamps of all ok series, and the cell (timestamp t, instrument r) holds r's value at
\* t when r has a row with timestamp t and the missing-value marker otherwise: series are
\* joined by timestamp equality, not by row position, also with different numbers of rows.
C17_OuterJoinOnTimestamp ==
    (WideReturned /\ ts_out.value.shape = "N_rics_1_field")
    => LET t == ts_out.value
           f == NonTimestamp(OkRecords[1].fields)[1]
       IN  /\ SetOf(t.index) = UNION { SetOf(TimestampsOf(OkRecords[s])) : s \in 1..Len(OkRecords) }
           /\ Cardinality(SetOf(t.index)) = Len(t.index)
           /\ \A r \in 1..Len(t.index) : \A s \in 1..Len(OkRecords) :
                 t.cells[r][s] =
                    IF HasRowAt(OkRecords[s], t.index[r])
                    THEN DataValue(OkRecords[s], RowAt(OkRecords[s], t.index[r]), f)
                    ELSE NaN

\* scenario E: the instruments A with the timestamp 1 and B with the timestamps 2 and 3
C17_Witness ==
    /\ WideReturned
    /\ ts_out.value.shape = "N_rics_1_field"
    /\ Len(TsData) = 2
    /\ TsData[1].fields = <<"TIMESTAMP", "CLOSE">>
    /\ TimestampsOf(TsData[1]) = <<1>>
    /\ TimestampsOf(TsData[2]) = <<2, 3>>
    /\ Len(ts_out.value.index) = 3
    /\ \E r \in 1..3 : /\ ts_out.value.index[r] = 2
                       /\ ts_out.value.cells[r] = <<NaN, ValueAt(2, "CLOSE", 2)>>

\* the entries of a sequence that are in a set, in the order of the sequence
Restrict(seq, S) == SelectSeq(seq, LAMBDA x : x \in S)

\* C18: no shape reorders timestamps: in every wide shape and in the normalized shape the
\* timestamps of any one instrument appear in the result in the same relative order as its
\* data rows were returned, also when that order is not chronological and when several
\* instruments with different timestamp sets are joined.
C18_TimestampOrderKept ==
    /\ WideReturned =>
          \A s \in 1..Len(OkRecords) :
              Restrict(ts_out.value.index, SetOf(TimestampsOf(OkRecords[s])))
                  = TimestampsOf(OkRecords[s])
    /\ (TsAnswered /\ ts_in.normalize /\ ~ts_in.raw_output /\ ts_out.kind = "return") =>
          \A s \in 1..Len(OkRecords) :
              LET own == SelectSeq(ts_out.value.rows,
                                   LAMBDA row : row.Security = OkRecords[s].ric)
                  F   == Len(NonTimestamp(OkRecords[s].fields))
              IN  \A k \in 1..Len(own) :
                      own[k].Date = TimestampsOf(OkRecords[s])[((k - 1) \div F) + 1]

\* C19: an ok record with an empty dataPoints list is accepted by the table builder: the
\* call returns a table, the record counts toward R in the shape decision and contributes
\* no row (read on conforming responses with a field besides TIMESTAMP).
C19_EmptyDataPointsAccepted ==
    (/\ TsAnswered /\ Conforming /\ ~ts_in.raw_output
     /\ Len(TsData) >= 1 /\ FieldCount >= 1
     /\ \E i \in OkStatusAt : Len(TsData[i].dataPoints) = 0)
    => /\ ts_out.kind = "return"
       /\ ~ts_in.normalize =>
             /\ Len(ts_out.value.frames) = Cardinality(OkStatusAt)
             /\ (Cardinality(OkStatusAt) = 1) => ts_out.value.shape = "1_ric_N_fields"
       /\ ts_in.normalize => Len(ts_out.value.rows) = RowsBefore(Len(OkRecords))

\* C20: in the many-instruments/one-field shape the result has exactly one column per ok
\* series, in the order of the ok series in the response, each named by that series'
\* instrument id (none keeps the field name), and the table-level column label is the
\* field name.
C20_OneColumnPerInstrument ==
    (/\ TsAnswered /\ ~ts_in.normalize /\ ~ts_in.raw_output
     /\ ts_out.kind = "return"
     /\ Len(OkRecords) > 1
     /\ Len(NonTimestamp(OkRecords[Len(OkRecords)].fields)) = 1)
    => LET t == ts_out.value
       IN  /\ t.shape = "N_rics_1_field"
           /\ t.columns = [s \in 1..Len(OkRecords) |-> OkRecords[s].ric]
           /\ t.name = NonTimestamp(OkRecords[1].fields)[1]

\* scenario C: of the instruments A, B, C the second fails; the columns are A and C
C20_Witness ==
    /\ TsAnswered /\ ~ts_in.normalize /\ ~ts_in.raw_output
    /\ ts_in.http = ScenarioC
    /\ ts_out.kind = "return"
    /\ ts_out.value.columns = << <<"A">>, <<"C">> >>
    /\ ts_out.value.name = "CLOSE"

\* C21: when raw_output is true and the response has at least one ok record,
\* get_timeseries returns the response received from send_json_request unchanged and
\* builds no table, for both values of normalize.
C21_RawOutputFirst ==
    (TsAnswered /\ ts_in.raw_output /\ OkStatusAt # {})
    => /\ ts_out.kind = "return"
       /\ ts_out.value = ts_in.http.body

\* raw output asked together with the normalized table, one of two records failing
C21_Witness ==
    /\ TsAnswered /\ ts_in.raw_output /\ ts_in.normalize
    /\ Len(TsData) = 2
    /\ TsData[1].statusCode = "OK" /\ TsData[2].statusCode = "Error"
    /\ ts_out.kind = "return"
    /\ ts_out.value.kind = "dict"
    /\ Len(warns) = 1

\* C23: for every value of statusCode a record is counted as failed by get_timeseries
\* (warning emitted, counted in the all-failed test) exactly when the table formatters
\* skip it: every skipped record has its warning, and a response of skipped records only
\* raises the all-instruments-failed error.
C23_FailedIffSkipped ==
    TsAnswered
    => LET skipped == { i \in 1..Len(TsData) : Lower(TsData[i].statusCode) = "error" }
       IN  /\ Len(warns) = Cardinality(skipped)
           /\ (Len(TsData) >= 1 /\ skipped = 1..Len(TsData)) =>
                 (ts_out.kind = "raise" /\ ts_out.type = "EikonError")

\* C24: when the timeseriesData list of the response is empty, get_timeseries raises the
\* all-instruments-failed error with an empty combined message and emits no warning, for
\* every value of raw_output and normalize.
C24_EmptyResponseRaises ==
    (TsAnswered /\ Len(TsData) = 0)
    => /\ ts_out.kind = "raise"
       /\ ts_out.type = "EikonError"
       /\ ts_out.code = "Error"
       /\ ts_out.message = <<>>
       /\ warns = <<>>

\* the empty response with raw output asked
C24_Witness ==
    /\ TsAnswered /\ Len(TsData) = 0
    /\ ts_in.raw_output /\ ~ts_in.normalize
    /\ ts_out.type = "EikonError"

\* an identifier with a lower-case letter and no upper-case letter, and a letter upper-cased
EntirelyLowerCase(id) ==
    /\ \E i \in 1..Len(id) : id[i] \in SetOf(LowerLetters)
    /\ \A i \in 1..Len(id) : id[i] \notin SetOf(UpperLetters)
UpperCased(id) ==
    [i \in 1..Len(id) |->
        IF id[i] \in SetOf(LowerLetters)
        THEN UpperLetters[CHOOSE k \in 1..Len(LowerLetters) : LowerLetters[k] = id[i]]
        ELSE id[i]]

\* the request of a call with a list of instruments was sent
RicsListSent ==
    /\ ts_pc = "done" /\ ts_sent
    /\ ts_in.args.rics \in {"list_of_str", "empty_list"}

\* C22: the instrument list sent in the payload has the length and order of the requested
\* list; each identifier that is entirely lower-case is sent upper-cased and every other
\* identifier is sent unchanged, so normalizing a normalized list changes nothing.
C22_RicsUpperCased ==
    RicsListSent
    => LET sent == ts_payload.rics
       IN  /\ Len(sent) = Len(ts_in.rics)
           /\ \A i \in 1..Len(sent) :
                 sent[i] = IF EntirelyLowerCase(ts_in.rics[i])
                           THEN UpperCased(ts_in.rics[i]) ELSE ts_in.rics[i]
           /\ \A i \in 1..Len(sent) : ~EntirelyLowerCase(sent[i])
           /\ PayloadRics("list_of_str", sent) = sent

\* ['a.b', 'Ab'] is sent as ['A.B', 'Ab']
C22_Witness ==
    /\ RicsListSent
    /\ ts_in.rics = << <<"a",".","b">>, <<"A","b">> >>
    /\ ts_payload.rics = << <<"A",".","B">>, <<"A","b">> >>

\* a call with a parameter the checks of get_timeseries refuse
BadParameterCall ==
    LET a == ts_in.args
    IN  /\ ts_pc = "done"
        /\ \/ a.rics \in {"empty_str", "None", "list_with_int"}
           \/ a.fields \in {"int", "list_with_int"}
           \/ a.interval # "str"
           \/ a.dates # "ok"
           \/ a.count \notin {"None", "int"}
           \/ a.calendar \notin {"None", "str"}
           \/ a.corax \notin {"None", "str"}

\* C25: every parameter check of get_timeseries (rics, fields, interval, start and end
\* date, start after end, count, calendar, corax) is done before the request is sent: on a
\* call that raises ValueError for a bad parameter send_json_request has not been called,
\* no warning has been emitted and the caller's rics and fields lists are unmodified.
C25_ChecksBeforeSend ==
    BadParameterCall
    => /\ ts_out.kind = "raise"
       /\ ts_out.type = "ValueError"
       /\ ~ts_sent
       /\ ts_payload = NoPayload
       /\ warns = <<>>
       /\ ts_caller.rics = ts_in.rics
       /\ ts_caller.fields = ts_in.fields

\* a bad corax, the last check, with lists for rics and fields
C25_Witness ==
    /\ BadParameterCall
    /\ ts_in.args.corax = "int"
    /\ ts_in.args.rics = "list_of_str"
    /\ ts_in.args.fields = "list_of_str"
    /\ ts_in.fields = << <<"c","l","o","s","e">> >>
    /\ ts_out.type = "ValueError"
    /\ ts_caller.fields = << <<"c","l","o","s","e">> >>

(***************************************************************************)
(* Properties of the request layer, checked under SpecReq                  *)
(***************************************************************************)

\* the last operation was check_server_error on the body of the answer
Checked == op = "check_server_error"

\* the last operation was a well-formed send_json_request that reached the transport
Sent ==
    /\ op = "send_json_request"
    /\ req.entity_ok
    /\ req.payload \in {"dict", "json_text"}
    /\ application_id # "unset"
    /\ url # NoUrl

\* ... and the transport answered 200 with a body that decodes
Classified ==
    /\ Sent
    /\ req.http.kind = "response"
    /\ req.http.status = "200"
    /\ req.http.decodes

AnswerBody == req.http.body

\* the string form of the body starts with '<' and ends with '>'
BracketedBody ==
    /\ AnswerBody.kind = "text"
    /\ Len(AnswerBody.text) >= 1
    /\ AnswerBody.text[1] = "<"
    /\ AnswerBody.text[Len(AnswerBody.text)] = ">"

C5_ServiceErrorForEveryMessage ==
    ((Checked \/ Classified) /\ AnswerBody.kind = "dict"
     /\ {"ErrorCode", "ErrorMessage"} \subseteq AnswerBody.keys)
    => /\ out.kind = "raise"
       /\ out.type = "HTTPError"
       /\ out.message = AnswerBody.ErrorMessage

\* the body carries the field (of a string or a list: holds the name)
Carries(name, chars) ==
    \/ AnswerBody.kind = "dict" /\ name \in AnswerBody.keys
    \/ AnswerBody.kind = "text" /\ Contains(AnswerBody.text, chars)
    \/ AnswerBody.kind = "list" /\ name \in AnswerBody.items

\* C6: a body that is no bracketed token and carries neither both ErrorCode and
\* ErrorMessage nor both error and transactionId is classified Ok: check_server_error
\* returns, and send_json_request returns that body.
C6_OtherBodiesAreOk ==
    ((Checked \/ Classified)
     /\ ~BracketedBody
     /\ ~(Carries("ErrorCode", S_ErrorCode) /\ Carries("ErrorMessage", S_ErrorMessage))
     /\ ~(Carries("error", S_error) /\ Carries("transactionId", S_transactionId)))
    => /\ out.kind = "return"
       /\ Classified => out.value = AnswerBody

\* C7: send_json_request maps each transport outcome to one outcome: 200 to the
\* classification of the body, 401 to the authentication failure with the response text,
\* any other status to the generic transport error, a connection failure to a
\* proxy-unreachable error that differs from every authentication failure; nothing is
\* returned without a body.
C7_TransportOutcomes ==
    Sent =>
        /\ Classified =>
              \/ out.kind = "raise" /\ out = check_server_error(AnswerBody)
              \/ out.kind = "return" /\ out.value = AnswerBody
        /\ (req.http.kind = "response" /\ req.http.status = "401")
              => out = EikonError("401", req.http.text)
        /\ (req.http.kind = "response" /\ req.http.status \notin {"200", "401"})
              => out.kind = "raise" /\ out.type = "HTTPError"
        /\ req.http.kind = "connection_error"
              => /\ out.kind = "raise"
                 /\ out.message = ProxyMessage
                 /\ \A t \in ResponseTexts : out # EikonError("401", t)
        /\ out.kind = "return"
              => req.http.kind = "response" /\ req.http.status = "200"

\* C8: when port discovery returned None (port and URL of the profile are None),
\* send_json_request reports the endpoint as unavailable and makes no HTTP POST.
C8_NoPostWithoutPort ==
    (/\ op = "send_json_request"
     /\ req.entity_ok
     /\ req.payload \in {"dict", "json_text"}
     /\ application_id # "unset"
     /\ port = None
     /\ url = NoUrl)
    => /\ posts = 0
       /\ out.kind = "raise"
       /\ out.type = "EikonError"

\* C26: after any sequence of Profile operations (construction, set_application_id,
\* set_port_number, set_timeout) the URL of the profile is None exactly when its port is
\* None, and otherwise it is 'http://localhost:<port>/api/v1/data' for the current port;
\* set_timeout leaves port and URL unchanged.
C26_UrlFollowsPort ==
    /\ [](/\ (url = NoUrl) <=> (port = None)
          /\ (port # None) => url = <<"http://localhost:", port, "/api/v1/data">>)
    /\ [][(op' = "set_timeout") => (port' = port /\ url' = url)]_vars

\* the timeout was changed on a profile whose port had been set to 1234
C26_Witness ==
    /\ op = "set_timeout"
    /\ timeout = 60
    /\ port = "1234"
    /\ url = <<"http://localhost:", "1234", "/api/v1/data">>

====
